---- MODULE Spec2Model ----
(***************************************************************************)
(* Online weight maintenance of zippy (pipeline/model/update_dataset.py).  *)
(*                                                                         *)
(* Text is modelled as a sequence of one-character strings, so that the    *)
(* tokenizer, the substring test of str.contains and the CSV round trip    *)
(* are computed and not assumed.  Real numbers the code computes with log  *)
(* and exp are kept symbolic (see Ln, Vel, Mean): two symbolic values are  *)
(* equal exactly when the real numbers they denote are equal, within the   *)
(* bounds of the model.  Floating-point rounding is not modelled.          *)
(***************************************************************************)
EXTENDS Integers, Sequences, FiniteSets, TLC

(***************************************************************************)
(* Bounds of the model.                                                    *)
(***************************************************************************)
MaxCalls == 3      \* train calls that pass step 1, over all users
MaxDate == 1       \* email dates are 0..MaxDate (seconds)

(***************************************************************************)
(* Text.                                                                   *)
(***************************************************************************)
Alphabet ==
    <<" ", ".", "<", ">", "@", "A", "C",
      "a", "b", "c", "d", "e", "g", "h", "l", "n", "o", "s", "t", "u", "x">>

CharOrd(c) == CHOOSE i \in 1..Len(Alphabet) : Alphabet[i] = c

\* \w of the token pattern (?u)\b\w\w+\b, within Alphabet
WordChars == {"a", "b", "c", "d", "e", "g", "h", "l", "n", "o", "s", "t", "u", "x"}

\* lexicographic order of str, as sorted() of the vocabulary uses it
LexLess(a, b) ==
    \E i \in 1..Len(b) :
        /\ \A j \in 1..(i - 1) : j <= Len(a) /\ a[j] = b[j]
        /\ IF i > Len(a) THEN TRUE ELSE CharOrd(a[i]) < CharOrd(b[i])

RECURSIVE SortedSeq(_)
SortedSeq(S) ==
    IF S = {} THEN <<>>
    ELSE LET m == CHOOSE x \in S : \A y \in S \ {x} : LexLess(x, y)
         IN  <<m>> \o SortedSeq(S \ {m})

Range(s) == {s[i] : i \in 1..Len(s)}

\* the texts of the model
TxtEmpty == <<>>
TxtThe == <<"t", "h", "e">>
TxtCat == <<"c", "a", "t">>
TxtCats == <<"c", "a", "t", "s">>
TxtNull == <<"n", "u", "l", "l">>
TxtTheCat == <<"t", "h", "e", " ", "c", "a", "t">>
TxtDogNullDog == <<"d", "o", "g", " ", "n", "u", "l", "l", " ", "d", "o", "g">>
AddrA == <<"a", "@", "x">>
AddrB == <<"b", "@", "x">>

\* header values of raw messages, as the mail server delivers them
RawCats == <<"C", "a", "t", "s">>
RawFromAb == <<"A", "b", " ", "<", "a", "b", "@", "x", ".", "c", ">">>
RawFromAd == <<"a", "d", "@", "x", ".", "c">>

(***************************************************************************)
(* CountVectorizer(stop_words=nltk english).fit_transform, for one         *)
(* document: lower-case text is split into maximal runs of word            *)
(* characters, runs shorter than two characters and stop words are         *)
(* dropped, the vocabulary is the sorted set of the remaining tokens, and  *)
(* an empty vocabulary raises ValueError.                                  *)
(***************************************************************************)
\* the words of nltk's english stop word list that the texts of the model use
StopWords == {TxtThe}

RECURSIVE Runs(_, _, _)
Runs(s, i, cur) ==
    IF i > Len(s)
    THEN IF cur = <<>> THEN <<>> ELSE <<cur>>
    ELSE IF s[i] \in WordChars
         THEN Runs(s, i + 1, Append(cur, s[i]))
         ELSE (IF cur = <<>> THEN <<>> ELSE <<cur>>) \o Runs(s, i + 1, <<>>)

KeepToken(t) == Len(t) >= 2 /\ t \notin StopWords

Tokens(s) == SelectSeq(Runs(s, 1, <<>>), KeepToken)

TermCount(doc, term) ==
    LET toks == Tokens(doc) IN Cardinality({i \in 1..Len(toks) : toks[i] = term})

\* docs is the list handed to fit_transform (a header value: a list of one text)
Vectorize(docs) ==
    LET vocab == SortedSeq(Range(Tokens(docs[1])))
    IN  [ok |-> vocab # <<>>, columns |-> vocab, doc |-> docs[1]]

(***************************************************************************)
(* Series.str.contains(term, regex=False) on one cell: substring test.     *)
(***************************************************************************)
Contains(text, term) ==
    \E i \in 0..(Len(text) - Len(term)) : SubSeq(text, i + 1, i + Len(term)) = term

(***************************************************************************)
(* CSV round trip.  to_csv writes a missing value as the empty field;      *)
(* read_csv (default na_values, keep_default_na) reads the empty field and *)
(* the words of its NA list as NaN.  A file is kept as the rows written.   *)
(***************************************************************************)
NaN == <<"#NaN">>          \* the missing value in a text column

\* pandas' default NA strings that lower-case text over Alphabet can spell
NaValues == {TxtEmpty, TxtNull, <<"n", "a", "n">>}

ParseField(s) == IF s \in NaValues THEN NaN ELSE s

FormatField(v) == IF v = NaN THEN TxtEmpty ELSE v

(***************************************************************************)
(* Symbolic reals.                                                         *)
(*   Ln(n)     ln(n), n a positive integer                                 *)
(*   One       1.0                                                         *)
(*   Vel(f,E)  10 + log10(f / E) as numpy computes it: inf for E = 0,      *)
(*             nan for f / E < 0; f / E is kept in lowest terms            *)
(*   Mean(ws)  Series.mean() of ws: NaN cells are skipped, nan for none    *)
(***************************************************************************)
RNaN == [k |-> "nan", a |-> 0, b |-> 0]
RInf == [k |-> "inf", a |-> 0, b |-> 0]
One == [k |-> "one", a |-> 0, b |-> 0]
Ln(n) == [k |-> "ln", a |-> n, b |-> 0]

RECURSIVE Gcd(_, _)
Gcd(x, y) == IF y = 0 THEN x ELSE Gcd(y, x % y)

Vel(f, E) ==
    IF E = 0 THEN RInf
    ELSE IF E < 0 THEN RNaN
    ELSE [k |-> "vel", a |-> f \div Gcd(f, E), b |-> E \div Gcd(f, E)]

\* np.log(np.exp(w) + c) for w = ln(n)
LogExpPlus(w, c) == Ln(w.a + c)

NotRNaN(w) == w # RNaN

Mean(ws) ==
    LET vals == SelectSeq(ws, NotRNaN)
    IN  IF vals = <<>> THEN RNaN
        ELSE IF \E i \in 1..Len(vals) : vals[i] = RInf THEN RInf
        ELSE IF \A i \in 1..Len(vals) : vals[i] = vals[1] THEN vals[1]
        ELSE [k |-> "mean", of |-> vals]

(***************************************************************************)
(* Storage: MODEL_DIR / <user> / <table>.csv.  Users have the six tables   *)
(* (bootstrapped empty by the external setup); Strangers lack some: "u3"   *)
(* was never set up, "u4" lacks the last file load_weights reads.          *)
(***************************************************************************)
Users == {"u1", "u2"}
Strangers == {"u3", "u4"}
Global == "global"
Dirs == Users \cup Strangers \cup {Global}

TableNames ==
    {"from_weight", "thread_senders_weight", "thread_weights",
     "thread_term_weights", "msg_terms_weight", "rank_df"}

\* the columns read_csv infers as text
TextColumns == {"From", "thread", "term", "from", "subject"}

ReadRow(r) == [c \in DOMAIN r |-> IF c \in TextColumns THEN ParseField(r[c]) ELSE r[c]]

WriteRow(r) == [c \in DOMAIN r |-> IF c \in TextColumns THEN FormatField(r[c]) ELSE r[c]]

read_csv(file) == [i \in DOMAIN file.rows |-> ReadRow(file.rows[i])]

\* to_csv under one directory for every user: MODEL_DIR / "u1" / name
to_csv_one_dir(d, user, name, table) ==
    [d EXCEPT !["u1"][name] =
        [exists |-> TRUE, rows |-> [i \in DOMAIN table |-> WriteRow(table[i])]]]

\* DataFrame.to_csv(MODEL_DIR / user / name, index=False): replaces the file
to_csv(d, user, name, table) ==
    [d EXCEPT ![user][name] =
        [exists |-> TRUE, rows |-> [i \in DOMAIN table |-> WriteRow(table[i])]]]

\* load_weights reading the files only when they are used: the first one decides
load_weights_lazy(d, user) ==
    IF ~d[user]["from_weight"].exists
    THEN [found |-> FALSE]
    ELSE [found |-> TRUE,
          from_wt |-> read_csv(d[user]["from_weight"]),
          thread_sender_wt |-> read_csv(d[user]["thread_senders_weight"]),
          thread_wt |-> read_csv(d[user]["thread_weights"]),
          thread_term_wt |-> read_csv(d[user]["thread_term_weights"]),
          msg_term_wt |-> read_csv(d[user]["msg_terms_weight"]),
          rank_df |-> read_csv(d[user]["rank_df"])]

load_weights(d, user) ==
    IF \E t \in TableNames : ~d[user][t].exists
    THEN [found |-> FALSE]
    ELSE [found |-> TRUE,
          from_wt |-> read_csv(d[user]["from_weight"]),
          thread_sender_wt |-> read_csv(d[user]["thread_senders_weight"]),
          thread_wt |-> read_csv(d[user]["thread_weights"]),
          thread_term_wt |-> read_csv(d[user]["thread_term_weights"]),
          msg_term_wt |-> read_csv(d[user]["msg_terms_weight"]),
          rank_df |-> read_csv(d[user]["rank_df"])]

(***************************************************************************)
(* The update rules.  Each takes the storage d and the loaded table and    *)
(* returns the storage after its to_csv.  A row found is changed in place  *)
(* in the caller's table; a row appended is appended to a copy, which the  *)
(* caller does not see.                                                    *)
(***************************************************************************)
\* update_from_weights starting a new sender at np.log(1)
update_from_weights_log1(d, email, from_weight) ==
    LET key == email.From[1]
        new == IF \E i \in DOMAIN from_weight : from_weight[i].From = key
               THEN [i \in DOMAIN from_weight |->
                        IF from_weight[i].From = key
                        THEN [from_weight[i] EXCEPT !.weight = LogExpPlus(@, 1)]
                        ELSE from_weight[i]]
               ELSE Append(from_weight, [From |-> key, weight |-> Ln(1)])
    IN  to_csv(d, email.To[1], "from_weight", new)

update_from_weights(d, email, from_weight) ==
    LET key == email.From[1]
        new == IF \E i \in DOMAIN from_weight : from_weight[i].From = key
               THEN [i \in DOMAIN from_weight |->
                        IF from_weight[i].From = key
                        THEN [from_weight[i] EXCEPT !.weight = LogExpPlus(@, 1)]
                        ELSE from_weight[i]]
               ELSE Append(from_weight, [From |-> key, weight |-> Ln(2)])
    IN  to_csv(d, email.To[1], "from_weight", new)

\* update_thread_senders_weights starting a new sender at np.log(1)
update_thread_senders_weights_log1(d, email, thread_senders_weights) ==
    LET key == email.From[1]
        new == IF \E i \in DOMAIN thread_senders_weights :
                      thread_senders_weights[i].From = key
               THEN [i \in DOMAIN thread_senders_weights |->
                        IF thread_senders_weights[i].From = key
                        THEN [thread_senders_weights[i] EXCEPT !.weight = LogExpPlus(@, 1)]
                        ELSE thread_senders_weights[i]]
               ELSE Append(thread_senders_weights, [From |-> key, weight |-> Ln(1)])
    IN  to_csv(d, email.To[1], "thread_senders_weight", new)

update_thread_senders_weights(d, email, thread_senders_weights) ==
    LET key == email.From[1]
        new == IF \E i \in DOMAIN thread_senders_weights :
                      thread_senders_weights[i].From = key
               THEN [i \in DOMAIN thread_senders_weights |->
                        IF thread_senders_weights[i].From = key
                        THEN [thread_senders_weights[i] EXCEPT !.weight = LogExpPlus(@, 1)]
                        ELSE thread_senders_weights[i]]
               ELSE Append(thread_senders_weights, [From |-> key, weight |-> Ln(2)])
    IN  to_csv(d, email.To[1], "thread_senders_weight", new)

\* the row of a thread seen for the first time
NewThreadRow(email) ==
    [thread |-> email.Subject[1], weight |-> One, time_span |-> 0, freq |-> 1,
     min_time |-> email.Date[1]]

\* the row of a thread seen again
SeenThreadRow(email, row) ==
    IF row.freq < 2
    THEN [row EXCEPT !.freq = @ + 1]
    ELSE LET new_timespan == email.Date[1] - row.min_time
         IN  [row EXCEPT !.time_span = new_timespan,
                         !.weight = Vel(row.freq, new_timespan),
                         !.freq = @ + 1]

\* raised: the exception that left the function, caller: the caller's table after
update_thread_weights(d, email, thread_weights) ==
    LET key == email.Subject[1]
        index == {i \in DOMAIN thread_weights : thread_weights[i].thread = key}
    IN  IF index = {}
        THEN [raised |-> "none", caller |-> thread_weights,
              d |-> to_csv(d, email.To[1], "thread_weights",
                           Append(thread_weights, NewThreadRow(email)))]
        ELSE IF Cardinality(index) > 1
        THEN \* "if current_freq < 2.0" on an array of several values
             [raised |-> "ValueError", caller |-> thread_weights, d |-> d]
        ELSE LET new == [i \in DOMAIN thread_weights |->
                            IF i \in index THEN SeenThreadRow(email, thread_weights[i])
                            ELSE thread_weights[i]]
             IN  [raised |-> "none", caller |-> new,
                  d |-> to_csv(d, email.To[1], "thread_weights", new)]

\* thread_weights.weight[thread_weights.thread.str.contains(term, regex=False)].mean()
\* .str needs a text column: a column of NaN only is float64 (AttributeError);
\* a NaN cell among texts gives a NaN in the mask (ValueError on indexing)
ContainsMean(thread_weights, term) ==
    LET n == Len(thread_weights)
        missing == {i \in 1..n : thread_weights[i].thread = NaN}
        hit(row) == Contains(row.thread, term)
    IN  IF n > 0 /\ Cardinality(missing) = n THEN [raised |-> "AttributeError"]
        ELSE IF missing # {} THEN [raised |-> "ValueError"]
        ELSE [raised |-> "none",
              value |-> LET rows == SelectSeq(thread_weights, hit)
                        IN  Mean([i \in DOMAIN rows |-> rows[i].weight])]

\* isinstance(updated_weight, np.float): np.float is float, and mean() returns a
\* numpy.float64, which is a float
IsNpFloat(w) == TRUE

\* one pass of the loop body, for the term at position i of the vocabulary
RECURSIVE ThreadTermsLoop(_, _, _, _)
ThreadTermsLoop(columns, i, thread_term_weights, thread_weights) ==
    IF i > Len(columns) THEN [raised |-> "none", table |-> thread_term_weights]
    ELSE
    LET term == columns[i]
        m == ContainsMean(thread_weights, term)
    IN  IF m.raised # "none" THEN [raised |-> m.raised, table |-> thread_term_weights]
        ELSE IF \E j \in DOMAIN thread_term_weights : thread_term_weights[j].term = term
        THEN LET updated_weight == IF IsNpFloat(m.value) THEN One ELSE m.value
             IN  ThreadTermsLoop(columns, i + 1,
                    [j \in DOMAIN thread_term_weights |->
                        IF thread_term_weights[j].term = term
                        THEN [thread_term_weights[j] EXCEPT !.weight = updated_weight]
                        ELSE thread_term_weights[j]],
                    thread_weights)
        ELSE LET weight == IF m.value = RNaN THEN One ELSE m.value
             IN  ThreadTermsLoop(columns, i + 1,
                    Append(thread_term_weights, [term |-> term, weight |-> weight]),
                    thread_weights)

update_thread_terms_weights(d, email, thread_term_weights, thread_weights, thread_tdm) ==
    LET r == ThreadTermsLoop(thread_tdm.columns, 1, thread_term_weights, thread_weights)
    IN  IF r.raised # "none" THEN [raised |-> r.raised, d |-> d]
        ELSE [raised |-> "none",
              d |-> to_csv(d, email.To[1], "thread_term_weights", r.table)]

RECURSIVE MsgTermsLoop(_, _, _, _)
MsgTermsLoop(columns, i, msg_term_weights, doc) ==
    IF i > Len(columns) THEN msg_term_weights
    ELSE
    LET term == columns[i]
        term_frequency == TermCount(doc, term)
        index == {j \in DOMAIN msg_term_weights : msg_term_weights[j].term = term}
    IN  IF index # {}
        THEN LET first == CHOOSE j \in index : \A k \in index : j <= k
                 current_weight == msg_term_weights[first].weight
                 current_freq == msg_term_weights[first].freq
             IN  MsgTermsLoop(columns, i + 1,
                    [j \in DOMAIN msg_term_weights |->
                        IF j \in index
                        THEN [msg_term_weights[j] EXCEPT
                                 !.weight = LogExpPlus(current_weight, term_frequency),
                                 !.freq = current_freq + term_frequency]
                        ELSE msg_term_weights[j]],
                    doc)
        ELSE MsgTermsLoop(columns, i + 1,
                Append(msg_term_weights,
                       [freq |-> term_frequency, term |-> term,
                        weight |-> Ln(term_frequency + 1)]),
                doc)

update_msg_terms_weights(d, email, msg_term_weights, msg_tdm) ==
    to_csv(d, email.To[1], "msg_terms_weight",
           MsgTermsLoop(msg_tdm.columns, 1, msg_term_weights, msg_tdm.doc))

RankRow(email, rank, priority, intent) ==
    [date |-> email.Date[1], from |-> email.From[1], subject |-> email.Subject[1],
     rank |-> rank, priority |-> priority, intent |-> intent]

\* the file written is the one of the email's recipient, whatever rank_df is
add_new_email(d, email, rank_df, rank, priority, intent) ==
    to_csv(d, email.To[1], "rank_df",
           Append(rank_df, RankRow(email, rank, priority, intent)))

(***************************************************************************)
(* online_training, the whole call.  step is the step that ended the call  *)
(* (8 when it ran to its end), status the exception that left it or "ok",  *)
(* subject_terms and message_terms tell whether steps 5 and 6 updated      *)
(* their table or logged the ValueError and went on.                       *)
(***************************************************************************)
Ended(status, step, d, thread_activity_wt, subject_terms, message_terms) ==
    [status |-> status, step |-> step, d |-> d,
     thread_activity_wt |-> thread_activity_wt,
     subject_terms |-> subject_terms, message_terms |-> message_terms]

online_training(d, email, rank, priority, intent) ==
    LET w == load_weights(d, email.To[1])
    IN  IF ~w.found THEN Ended("NotFound", 1, d, <<>>, "-", "-")
        ELSE
        LET d2 == update_from_weights(d, email, w.from_wt)
            d3 == update_thread_senders_weights(d2, email, w.thread_sender_wt)
            r4 == update_thread_weights(d3, email, w.thread_wt)
        IN  IF r4.raised # "none" THEN Ended(r4.raised, 4, r4.d, r4.caller, "-", "-")
            ELSE
            LET thread_activity_wt == r4.caller
                thread_tdm == Vectorize(email.Subject)
                r5 == IF ~thread_tdm.ok THEN [raised |-> "ValueError", d |-> r4.d]
                      ELSE update_thread_terms_weights(r4.d, email, w.thread_term_wt,
                                                       thread_activity_wt, thread_tdm)
                subject_terms == IF r5.raised = "none" THEN "updated" ELSE "skipped"
            IN  IF r5.raised \notin {"none", "ValueError"}
                THEN Ended(r5.raised, 5, r5.d, thread_activity_wt, "-", "-")
                ELSE
                LET msg_tdm == Vectorize(email.content)
                    d6 == IF ~msg_tdm.ok THEN r5.d
                          ELSE update_msg_terms_weights(r5.d, email, w.msg_term_wt, msg_tdm)
                    message_terms == IF msg_tdm.ok THEN "updated" ELSE "skipped"
                    d7 == add_new_email(d6, email, w.rank_df, rank, priority, intent)
                    g == load_weights(d7, Global)
                IN  IF ~g.found
                    THEN Ended("NotFound", 8, d7, thread_activity_wt,
                               subject_terms, message_terms)
                    ELSE Ended("ok", 8,
                               add_new_email(d7, email, g.rank_df, rank, priority, intent),
                               thread_activity_wt, subject_terms, message_terms)

(***************************************************************************)
(* parse_email.from_message.  Every header value is lower-cased and put in *)
(* a list of one text; content is the plain text itself, a str; From is    *)
(* then replaced by the first address the pattern finds in it: a str, not  *)
(* a list.  A str is kept here as the sequence of its items, the           *)
(* one-character strs that indexing it yields, so that email["From"][0]    *)
(* and fit_transform(email["content"]) are computed on what they are       *)
(* given.  (fit_transform refuses a str with ValueError; Vectorize of the  *)
(* items ends the same way, a one-character text having no token.)         *)
(***************************************************************************)
LowerChar(c) == IF c = "A" THEN "a" ELSE IF c = "C" THEN "c" ELSE c

Lower(s) == [i \in DOMAIN s |-> LowerChar(s[i])]

\* str.lower of a To header: the name of the recipient's directory
LowerName(n) == IF n = "U1" THEN "u1" ELSE n

StrItems(s) == [i \in DOMAIN s |-> <<s[i]>>]

\* [\w_\-\.] within the lower-case letters of Alphabet
AddrChars == WordChars \cup {"."}

\* the last position of the longest run of characters of S that starts at i
RunEnd(s, i, S) ==
    CHOOSE j \in (i - 1)..Len(s) :
        (\A k \in i..j : s[k] \in S) /\ (j = Len(s) \/ s[j + 1] \notin S)

\* the first position of the longest run of characters of S that ends at i
RunStart(s, i, S) ==
    CHOOSE j \in 1..(i + 1) :
        (\A k \in j..i : s[k] \in S) /\ (j = 1 \/ s[j - 1] \notin S)

\* the dots after the @ at p that [\w_\-\.]+\.[\w]+ can take for its \.
DotsAfter(s, p) ==
    {j \in (p + 2)..(RunEnd(s, p + 1, AddrChars) - 1) :
        s[j] = "." /\ s[j + 1] \in WordChars}

\* re.search(r"[\w_\-\.]+@[\w_\-\.]+\.[\w]+", s): the leftmost match, greedy
SearchAddress(s) ==
    LET ats == {p \in 2..Len(s) :
                   s[p] = "@" /\ s[p - 1] \in AddrChars /\ DotsAfter(s, p) # {}}
    IN  IF ats = {} THEN [found |-> FALSE]
        ELSE LET p == CHOOSE x \in ats : \A y \in ats : x <= y
                 dot == CHOOSE x \in DotsAfter(s, p) : \A y \in DotsAfter(s, p) : y <= x
             IN  [found |-> TRUE,
                  group |-> SubSeq(s, RunStart(s, p - 1, AddrChars),
                                   RunEnd(s, dot + 1, WordChars))]

\* message: the headers To, From, Subject, Date and the text/plain payload
from_message(message) ==
    LET msg == [To |-> <<LowerName(message.To)>>,
                From |-> <<Lower(message.From)>>,
                Subject |-> <<Lower(message.Subject)>>,
                Date |-> <<message.Date>>,
                content |-> StrItems(message.text)]
        m == SearchAddress(msg.From[1])
    IN  IF ~m.found THEN [raised |-> "AttributeError"]
        ELSE [raised |-> "none", msg |-> [msg EXCEPT !.From = StrItems(m.group)]]

(***************************************************************************)
(* The state machine: the storage, and train calls one after another      *)
(* (Spec, and SpecMail for the records of from_message), or two train      *)
(* calls that run at the same time, a step at a time (SpecRace).           *)
(***************************************************************************)
VARIABLES
    disk,       \* disk[dir][table]: [exists, rows], the CSV files
    call,       \* the last train call: its email and how it ended
    sent,       \* sent[user][key]: calls past step 1 with that email["From"][0]
    occ,        \* occ[user][subject]: calls past step 1 with that subject
    termOcc,    \* termOcc[user][term]: occurrences of term in the bodies step 6 was given
    proc        \* proc[p]: a train call in progress: its position, email and loaded tables

vars == <<disk, call, sent, occ, termOcc, proc>>

Senders == {AddrA, AddrB}
Subjects == {TxtEmpty, TxtCats, TxtTheCat}
Bodies == {TxtThe, TxtDogNullDog}
Dates == 0..MaxDate
Ranks == {1}
Priorities == {"high"}
Intents == {"reply"}

\* normalized email records: header values are lists of one lower-case text.
\* The emails to "u1" vary in every field; those to the other directories are
\* one email each (of an email to a stranger nothing but To is ever read).
Emails ==
    [To : {<<"u1">>},
     From : {<<a>> : a \in Senders},
     Subject : {<<s>> : s \in Subjects},
     Date : {<<t>> : t \in Dates},
     content : {<<b>> : b \in Bodies}]
    \cup
    [To : {<<u>> : u \in (Users \ {"u1"}) \cup Strangers},
     From : {<<AddrA>>},
     Subject : {<<TxtCats>>},
     Date : {<<0>>},
     content : {<<TxtDogNullDog>>}]

\* raw messages, which from_message normalizes
Messages ==
    [To : {"U1"},
     From : {RawFromAb, RawFromAd},
     Subject : {RawCats, TxtTheCat},
     Date : Dates,
     text : {TxtDogNullDog}]

\* the values email["From"][0] takes
SenderKeys == Senders \cup {from_message(m).msg.From[1] : m \in Messages}

BodyTerms == UNION {Range(Tokens(b)) : b \in Bodies}

\* the train calls that run at the same time, and their emails
Procs == {"p1", "p2"}

RaceEmails ==
    [To : {<<"u1">>},
     From : {<<a>> : a \in Senders},
     Subject : {<<TxtCats>>, <<TxtTheCat>>},
     Date : {<<0>>},
     content : {<<TxtDogNullDog>>}]

\* the tables a directory lacks
Missing(u) ==
    IF u = "u3" THEN TableNames ELSE IF u = "u4" THEN {"rank_df"} ELSE {}

EmptyFile == [exists |-> TRUE, rows |-> <<>>]

NoEmail == [To |-> <<>>, From |-> <<>>, Subject |-> <<>>, Date |-> <<>>, content |-> <<>>]

\* a train call that has not started
Idle ==
    [pc |-> "idle", email |-> NoEmail, rank |-> 0, priority |-> "", intent |-> "",
     w |-> [found |-> FALSE], thread_activity_wt |-> <<>>]

Init ==
    /\ disk = [u \in Dirs |->
                 [t \in TableNames |->
                     IF t \in Missing(u) THEN [exists |-> FALSE, rows |-> <<>>]
                     ELSE EmptyFile]]
    /\ call = [email |-> NoEmail, rank |-> 0, priority |-> "", intent |-> "",
               status |-> "idle", step |-> 0, thread_activity_wt |-> <<>>,
               subject_terms |-> "-", message_terms |-> "-"]
    /\ sent = [u \in Users |-> [a \in SenderKeys |-> 0]]
    /\ occ = [u \in Users |-> [s \in Subjects |-> 0]]
    /\ termOcc = [u \in Users |-> [t \in BodyTerms |-> 0]]
    /\ proc = [p \in Procs |-> Idle]

RECURSIVE SumOf(_, _)
SumOf(f, S) ==
    IF S = {} THEN 0
    ELSE LET x == CHOOSE x \in S : TRUE IN f[x] + SumOf(f, S \ {x})

Calls == SumOf([u \in Users |-> SumOf(sent[u], SenderKeys)], Users)

Train(email, rank, priority, intent) ==
    LET r == online_training(disk, email, rank, priority, intent)
        u == email.To[1]
    IN  /\ (\A t \in TableNames : disk[u][t].exists) => Calls < MaxCalls
        /\ disk' = r.d
        /\ call' = [email |-> email, rank |-> rank, priority |-> priority,
                    intent |-> intent, status |-> r.status, step |-> r.step,
                    thread_activity_wt |-> r.thread_activity_wt,
                    subject_terms |-> r.subject_terms,
                    message_terms |-> r.message_terms]
        /\ IF r.step > 1
           THEN /\ sent' = [sent EXCEPT ![u][email.From[1]] = @ + 1]
                /\ occ' = [occ EXCEPT ![u][email.Subject[1]] = @ + 1]
           ELSE UNCHANGED <<sent, occ>>
        /\ IF r.step > 5
           THEN termOcc' = [termOcc EXCEPT ![u] =
                               [t \in BodyTerms |-> @[t] + TermCount(email.content[1], t)]]
           ELSE UNCHANGED termOcc
        /\ UNCHANGED proc

Next ==
    \E email \in Emails, rank \in Ranks, priority \in Priorities, intent \in Intents :
        Train(email, rank, priority, intent)

Spec == Init /\ [][Next]_vars

(***************************************************************************)
(* Train calls on what from_message makes of a raw message.                *)
(***************************************************************************)
TrainMessage(message, rank, priority, intent) ==
    LET parsed == from_message(message)
    IN  /\ parsed.raised = "none"
        /\ Train(parsed.msg, rank, priority, intent)

NextMail ==
    \E message \in Messages, rank \in Ranks, priority \in Priorities, intent \in Intents :
        TrainMessage(message, rank, priority, intent)

SpecMail == Init /\ [][NextMail]_vars

(***************************************************************************)
(* Two train calls at the same time.  Nothing in online_training locks or  *)
(* versions a file, so between the load of step 1 and each to_csv of a     *)
(* call the other call may run any of its own steps.  A step is the load   *)
(* of step 1, or the update of one table with its to_csv (step 8 with the  *)
(* load of the global ledger it starts with).                              *)
(***************************************************************************)
\* step 2 on the table as it is on disk now, not as step 1 loaded it
SaveFromFresh(p) ==
    /\ proc[p].pc = "from"
    /\ disk' = update_from_weights(disk, proc[p].email,
                                   read_csv(disk[proc[p].email.To[1]]["from_weight"]))
    /\ proc' = [proc EXCEPT ![p].pc = "thread_senders"]
    /\ UNCHANGED <<call, sent, occ, termOcc>>

\* step 1
Load(p, email, rank, priority, intent) ==
    LET w == load_weights(disk, email.To[1])
    IN  /\ proc[p].pc = "idle"
        /\ proc' = [proc EXCEPT ![p] =
                       [pc |-> IF w.found THEN "from" ELSE "done",
                        email |-> email, rank |-> rank, priority |-> priority,
                        intent |-> intent, w |-> w, thread_activity_wt |-> <<>>]]
        /\ IF w.found
           THEN /\ sent' = [sent EXCEPT ![email.To[1]][email.From[1]] = @ + 1]
                /\ occ' = [occ EXCEPT ![email.To[1]][email.Subject[1]] = @ + 1]
           ELSE UNCHANGED <<sent, occ>>
        /\ UNCHANGED <<disk, call, termOcc>>

\* step 2
SaveFrom(p) ==
    /\ proc[p].pc = "from"
    /\ disk' = update_from_weights(disk, proc[p].email, proc[p].w.from_wt)
    /\ proc' = [proc EXCEPT ![p].pc = "thread_senders"]
    /\ UNCHANGED <<call, sent, occ, termOcc>>

\* step 3
SaveThreadSenders(p) ==
    /\ proc[p].pc = "thread_senders"
    /\ disk' = update_thread_senders_weights(disk, proc[p].email, proc[p].w.thread_sender_wt)
    /\ proc' = [proc EXCEPT ![p].pc = "thread"]
    /\ UNCHANGED <<call, sent, occ, termOcc>>

\* step 4
SaveThread(p) ==
    LET r4 == update_thread_weights(disk, proc[p].email, proc[p].w.thread_wt)
    IN  /\ proc[p].pc = "thread"
        /\ disk' = r4.d
        /\ proc' = [proc EXCEPT ![p].pc = IF r4.raised # "none" THEN "done" ELSE "thread_terms",
                                ![p].thread_activity_wt = r4.caller]
        /\ UNCHANGED <<call, sent, occ, termOcc>>

\* step 5
SaveThreadTerms(p) ==
    LET email == proc[p].email
        thread_tdm == Vectorize(email.Subject)
        r5 == IF ~thread_tdm.ok THEN [raised |-> "ValueError", d |-> disk]
              ELSE update_thread_terms_weights(disk, email, proc[p].w.thread_term_wt,
                                               proc[p].thread_activity_wt, thread_tdm)
    IN  /\ proc[p].pc = "thread_terms"
        /\ disk' = r5.d
        /\ proc' = [proc EXCEPT ![p].pc =
                       IF r5.raised \notin {"none", "ValueError"} THEN "done" ELSE "msg_terms"]
        /\ UNCHANGED <<call, sent, occ, termOcc>>

\* step 6
SaveMsgTerms(p) ==
    LET email == proc[p].email
        msg_tdm == Vectorize(email.content)
    IN  /\ proc[p].pc = "msg_terms"
        /\ disk' = IF ~msg_tdm.ok THEN disk
                   ELSE update_msg_terms_weights(disk, email, proc[p].w.msg_term_wt, msg_tdm)
        /\ proc' = [proc EXCEPT ![p].pc = "rank"]
        /\ termOcc' = [termOcc EXCEPT ![email.To[1]] =
                          [t \in BodyTerms |-> @[t] + TermCount(email.content[1], t)]]
        /\ UNCHANGED <<call, sent, occ>>

\* step 7
SaveLedger(p) ==
    /\ proc[p].pc = "rank"
    /\ disk' = add_new_email(disk, proc[p].email, proc[p].w.rank_df,
                             proc[p].rank, proc[p].priority, proc[p].intent)
    /\ proc' = [proc EXCEPT ![p].pc = "global"]
    /\ UNCHANGED <<call, sent, occ, termOcc>>

\* step 8
SaveGlobal(p) ==
    LET g == load_weights(disk, Global)
    IN  /\ proc[p].pc = "global"
        /\ disk' = IF ~g.found THEN disk
                   ELSE add_new_email(disk, proc[p].email, g.rank_df,
                                      proc[p].rank, proc[p].priority, proc[p].intent)
        /\ proc' = [proc EXCEPT ![p].pc = "done"]
        /\ UNCHANGED <<call, sent, occ, termOcc>>

NextRace ==
    \E p \in Procs :
        \/ \E email \in RaceEmails, rank \in Ranks, priority \in Priorities,
              intent \in Intents : Load(p, email, rank, priority, intent)
        \/ SaveFrom(p)
        \/ SaveThreadSenders(p)
        \/ SaveThread(p)
        \/ SaveThreadTerms(p)
        \/ SaveMsgTerms(p)
        \/ SaveLedger(p)
        \/ SaveGlobal(p)

SpecRace == Init /\ [][NextRace]_vars

(***************************************************************************)
(* Properties.  A step of Spec that changes the state is one train call;   *)
(* call' holds its email and how it ended, the unprimed variables hold the *)
(* state before it.                                                        *)
(***************************************************************************)
Rows(d, u, t) == d[u][t].rows

IsPrefix(a, b) == Len(a) <= Len(b) /\ SubSeq(b, 1, Len(a)) = a

\* the rows of a file whose column col holds key
KeyRows(rows, col, key) == SelectSeq(rows, LAMBDA r : r[col] = key)

\* the train call of this step passed step 1
Trained == call'.step > 1

Recipient == call'.email.To[1]

\* the vocabulary of the subject, <<>> when the extraction fails
SubjectTerms(email) == Vectorize(email.Subject).columns

BodyVocabulary(email) == Vectorize(email.content).columns

\* the row add_new_email appends for the call of this step, as written
CallRow ==
    WriteRow(RankRow(call'.email, call'.rank, call'.priority, call'.intent))

\* C1: every train call whose step-1 load succeeds leaves the recipient's rank
\* ledger with exactly one more row and the global rank ledger with exactly
\* one more row.
C1_OneRowPerLedger ==
    [][Trained =>
        /\ Len(Rows(disk', Recipient, "rank_df")) = Len(Rows(disk, Recipient, "rank_df")) + 1
        /\ Len(Rows(disk', Global, "rank_df")) = Len(Rows(disk, Global, "rank_df")) + 1]_vars

\* two calls for "u1" ran to their end: its ledger holds one row, the global none
C1_Scenario ==
    /\ call.status = "ok"
    /\ call.email.To = <<"u1">>
    /\ SumOf(sent["u1"], Senders) = 2
    /\ Len(Rows(disk, "u1", "rank_df")) = 1
    /\ Rows(disk, Global, "rank_df") = <<>>

\* C2: both rank ledgers are append-only: the ledger of the recipient and the
\* global ledger before a train call are prefixes of what they are after it,
\* and the ledger of no other user gets a row.
C2_LedgersAppendOnly ==
    [][Trained =>
        /\ IsPrefix(Rows(disk, Recipient, "rank_df"), Rows(disk', Recipient, "rank_df"))
        /\ IsPrefix(Rows(disk, Global, "rank_df"), Rows(disk', Global, "rank_df"))
        /\ \A v \in Users \ {Recipient} :
              Rows(disk', v, "rank_df") = Rows(disk, v, "rank_df")]_vars

\* after an email from each sender, the row of the first email is gone
C2_Scenario ==
    /\ call.status = "ok"
    /\ call.email.To = <<"u1">>
    /\ call.email.From = <<AddrB>>
    /\ sent["u1"][AddrA] = 1
    /\ sent["u1"][AddrB] = 1
    /\ KeyRows(Rows(disk, "u1", "rank_df"), "from", AddrA) = <<>>

\* C3: after n >= 1 train calls for a user with emails from sender s, starting
\* from a sender table without s, the table holds one row for s and its
\* weight is ln(n + 1); before the first there is none.
C3_SenderWeightIsLnCount ==
    \A u \in Users, a \in Senders :
        LET rows == KeyRows(Rows(disk, u, "from_weight"), "From", a)
        IN  IF sent[u][a] = 0 THEN rows = <<>>
            ELSE rows = <<[From |-> a, weight |-> Ln(sent[u][a] + 1)]>>

\* the scenario of the spec: three emails from one sender give ln(4), next to
\* the row of another sender
C3_Witness ==
    /\ sent["u1"][AddrA] = 2
    /\ sent["u1"][AddrB] = 1
    /\ KeyRows(Rows(disk, "u1", "from_weight"), "From", AddrA)
          = <<[From |-> AddrA, weight |-> Ln(3)]>>

\* C4: the first train call with a subject that is not in the user's thread
\* table persists the row (frequency 1, weight 1.0, time_span 0.0, first_seen
\* the email's date); the second train call with the subject sets frequency
\* to 2 and leaves the rest of the row as it was.
C4_FirstAndSecondOccurrence ==
    [][Trained =>
        LET s == call'.email.Subject[1]
            before == KeyRows(Rows(disk, Recipient, "thread_weights"), "thread", s)
            after == KeyRows(Rows(disk', Recipient, "thread_weights"), "thread", s)
        IN  /\ occ[Recipient][s] = 0 =>
                 after = <<[thread |-> s, weight |-> One, time_span |-> 0, freq |-> 1,
                            min_time |-> call'.email.Date[1]]>>
            /\ occ[Recipient][s] = 1 =>
                 /\ Len(before) = 1
                 /\ after = <<[before[1] EXCEPT !.freq = 2]>>]_vars

\* two emails with the empty subject: two rows of frequency 1
C4_Scenario ==
    /\ occ["u1"][TxtEmpty] = 2
    /\ Len(Rows(disk, "u1", "thread_weights")) = 2
    /\ \A i \in DOMAIN Rows(disk, "u1", "thread_weights") :
          /\ Rows(disk, "u1", "thread_weights")[i].thread = TxtEmpty
          /\ Rows(disk, "u1", "thread_weights")[i].freq = 1

\* C5: a train call for a thread stored with frequency f >= 2, at a date E > 0
\* seconds after first_seen, sets time_span to E, weight to 10 + log10(f / E)
\* and frequency to f + 1; and after k occurrences of a subject the frequency
\* of its thread is k.
C5_VelocityAndFrequency ==
    [][Trained =>
        LET s == call'.email.Subject[1]
            before == KeyRows(Rows(disk, Recipient, "thread_weights"), "thread", s)
            after == KeyRows(Rows(disk', Recipient, "thread_weights"), "thread", s)
            E == call'.email.Date[1] - before[1].min_time
        IN  /\ (Len(before) = 1 /\ before[1].freq >= 2 /\ E > 0) =>
                 after = <<[before[1] EXCEPT !.time_span = E,
                                             !.weight = Vel(before[1].freq, E),
                                             !.freq = before[1].freq + 1]>>
            /\ Len(after) = 1 /\ after[1].freq = occ'[Recipient][s]]_vars

\* three emails with the empty subject: no thread of frequency 3
C5_Scenario ==
    /\ occ["u1"][TxtEmpty] = 3
    /\ Len(Rows(disk, "u1", "thread_weights")) = 3
    /\ \A i \in DOMAIN Rows(disk, "u1", "thread_weights") :
          Rows(disk, "u1", "thread_weights")[i].freq = 1

\* the weight the thread-subject projection owes a term: the mean weight of the
\* thread records it was given whose subject contains the term
OwedMean(thread_weights, term) ==
    LET rows == SelectSeq(thread_weights, LAMBDA r : r.thread # NaN /\ Contains(r.thread, term))
    IN  [contained |-> rows # <<>>, mean |-> Mean([i \in DOMAIN rows |-> rows[i].weight])]

\* C6: in thread-subject term projection, a term of the vocabulary that has a
\* row in the thread-term table gets the mean weight of the thread records
\* whose subject contains it, and 1.0 only when that mean is undefined.
C6_ExistingTermGetsMean ==
    [][Trained =>
        \A i \in DOMAIN SubjectTerms(call'.email) :
            LET term == SubjectTerms(call'.email)[i]
                before == KeyRows(Rows(disk, Recipient, "thread_term_weights"), "term", term)
                after == KeyRows(Rows(disk', Recipient, "thread_term_weights"), "term", term)
                owed == OwedMean(call'.thread_activity_wt, term)
            IN  before # <<>> =>
                  /\ Len(after) = Len(before)
                  /\ \A j \in DOMAIN after :
                        after[j].weight = IF owed.mean = RNaN THEN One ELSE owed.mean]_vars

\* the third email of a thread, one second after the first: the thread weighs
\* 10 + log10(2 / 1), its term is given 1.0
C6_Scenario ==
    /\ call.status = "ok"
    /\ call.email.To = <<"u1">>
    /\ call.email.Subject = <<TxtCats>>
    /\ call.thread_activity_wt =
          <<[thread |-> TxtCats, weight |-> Vel(2, 1), time_span |-> 1, freq |-> 3,
             min_time |-> 0]>>
    /\ Rows(disk, "u1", "thread_term_weights") = <<[term |-> TxtCats, weight |-> One]>>

\* C7: in thread-subject term projection, a term of the vocabulary that has no
\* row in the thread-term table gets exactly one row, whose weight is the
\* mean weight of the thread records whose subject contains it, or 1.0 when
\* no thread record's subject contains it.
C7_NewTermGetsOneRow ==
    [][Trained =>
        \A i \in DOMAIN SubjectTerms(call'.email) :
            LET term == SubjectTerms(call'.email)[i]
                before == KeyRows(Rows(disk, Recipient, "thread_term_weights"), "term", term)
                after == KeyRows(Rows(disk', Recipient, "thread_term_weights"), "term", term)
                owed == OwedMean(call'.thread_activity_wt, term)
            IN  before = <<>> =>
                  after = <<[term |-> term,
                             weight |-> IF owed.contained THEN owed.mean ELSE One]>>]_vars

\* after an email with the empty subject, the projection of a new subject is
\* given up with the ValueError of the mask, and the call goes on: no row
C7_Scenario ==
    /\ call.status = "ok"
    /\ call.email.To = <<"u1">>
    /\ call.email.Subject = <<TxtTheCat>>
    /\ call.subject_terms = "skipped"
    /\ KeyRows(Rows(disk, "u1", "thread_term_weights"), "term", TxtCat) = <<>>

\* C8: starting from an empty message-term table, every row of the table has
\* exp(weight) = freq + 1, and every term that occurred in the bodies of the
\* train calls has one row, whose freq is the number of its occurrences.
C8_MessageTermsCount ==
    \A u \in Users :
        /\ \A i \in DOMAIN Rows(disk, u, "msg_terms_weight") :
              Rows(disk, u, "msg_terms_weight")[i].weight
                 = Ln(Rows(disk, u, "msg_terms_weight")[i].freq + 1)
        /\ \A t \in BodyTerms :
              termOcc[u][t] > 0 =>
                 KeyRows(Rows(disk, u, "msg_terms_weight"), "term", t)
                    = <<[freq |-> termOcc[u][t], term |-> t,
                         weight |-> Ln(termOcc[u][t] + 1)]>>

\* two bodies with the word null: two rows of frequency 1, one of them keyless
C8_Scenario ==
    /\ termOcc["u1"][TxtNull] = 2
    /\ Len(Rows(disk, "u1", "msg_terms_weight")) = 3
    /\ KeyRows(Rows(disk, "u1", "msg_terms_weight"), "term", TxtNull)
          = <<[freq |-> 1, term |-> TxtNull, weight |-> Ln(2)]>>
    /\ KeyRows(Rows(disk, "u1", "msg_terms_weight"), "term", TxtEmpty)
          = <<[freq |-> 1, term |-> TxtEmpty, weight |-> Ln(2)]>>

\* the sender table t of the recipient holds the sender of the call, counted
SenderCounted(t) ==
    KeyRows(Rows(disk', Recipient, t), "From", call'.email.From[1])
       = <<[From |-> call'.email.From[1],
            weight |-> Ln(sent'[Recipient][call'.email.From[1]] + 1)]>>

\* the ledger of dir ends with the row of the call
LedgerEndsWithCall(dir) ==
    /\ Len(Rows(disk', dir, "rank_df")) = Len(Rows(disk, dir, "rank_df")) + 1
    /\ Rows(disk', dir, "rank_df")[Len(Rows(disk', dir, "rank_df"))] = CallRow

\* C9: a train call whose subject (body) yields an empty vocabulary does not
\* fail; it leaves the thread-term (message-term) table as it was, attempts
\* the other projection all the same, and performs and persists the sender,
\* thread-sender, thread and rank-ledger updates of the email.
C9_EmptyVocabularySkipsOnlyItsStep ==
    [][(Trained /\ (SubjectTerms(call'.email) = <<>> \/ BodyVocabulary(call'.email) = <<>>)) =>
        /\ call'.status = "ok"
        /\ SubjectTerms(call'.email) = <<>> =>
              /\ Rows(disk', Recipient, "thread_term_weights")
                    = Rows(disk, Recipient, "thread_term_weights")
              /\ call'.message_terms =
                    IF BodyVocabulary(call'.email) = <<>> THEN "skipped" ELSE "updated"
        /\ BodyVocabulary(call'.email) = <<>> =>
              /\ Rows(disk', Recipient, "msg_terms_weight")
                    = Rows(disk, Recipient, "msg_terms_weight")
              /\ call'.subject_terms =
                    IF SubjectTerms(call'.email) = <<>> THEN "skipped" ELSE "updated"
        /\ SenderCounted("from_weight")
        /\ SenderCounted("thread_senders_weight")
        /\ KeyRows(Rows(disk', Recipient, "thread_weights"), "thread",
                   call'.email.Subject[1]) # <<>>
        /\ Rows(disk', Recipient, "thread_weights") # Rows(disk, Recipient, "thread_weights")
        /\ LedgerEndsWithCall(Recipient)
        /\ LedgerEndsWithCall(Global)]_vars

\* both vocabularies empty: both projections skipped, the sender counted, the
\* row in the user's ledger, the global ledger empty
C9_Scenario ==
    /\ call.status = "ok"
    /\ call.email.To = <<"u1">>
    /\ call.email.Subject = <<TxtEmpty>>
    /\ call.email.content = <<TxtThe>>
    /\ call.subject_terms = "skipped"
    /\ call.message_terms = "skipped"
    /\ Rows(disk, "u1", "from_weight") # <<>>
    /\ Rows(disk, "u1", "rank_df") # <<>>
    /\ Rows(disk, Global, "rank_df") = <<>>

\* C10: a train call for a user who lacks any of the six tables ends with the
\* NotFound of step 1 and changes no file: not of that user, not of another
\* user, not the global rank ledger.
C10_MissingTableChangesNothing ==
    [][(\E t \in TableNames : ~disk[Recipient][t].exists) =>
        /\ call'.status = "NotFound"
        /\ call'.step = 1
        /\ disk' = disk]_vars

\* a call for the user who lacks only the file read last, after other users'
\* tables and ledgers were written
C10_Witness ==
    /\ call.status = "NotFound"
    /\ call.step = 1
    /\ call.email.To[1] = "u4"
    /\ Rows(disk, "u1", "from_weight") # <<>>
    /\ Rows(disk, "u2", "rank_df") # <<>>

\* both train calls of SpecRace ran to their end
AllDone == \A p \in Procs : proc[p].pc = "done"

\* C11: two train calls for the same user that run at the same time, a step
\* at a time, lose an update: when both loaded the same sender table, the
\* sender table they leave holds one row of weight ln(2), the row of one of
\* the two emails, also when the two emails are from the same sender; when one
\* loaded what the other had saved, every sender is counted.
C11_LostUpdateWhenLoadsCoincide ==
    AllDone =>
        LET t == Rows(disk, "u1", "from_weight")
        IN  IF proc["p1"].w.from_wt = proc["p2"].w.from_wt
            THEN \E p \in Procs : t = <<[From |-> proc[p].email.From[1], weight |-> Ln(2)]>>
            ELSE \A p \in Procs :
                    KeyRows(t, "From", proc[p].email.From[1])
                       = <<[From |-> proc[p].email.From[1],
                            weight |-> Ln(sent["u1"][proc[p].email.From[1]] + 1)]>>

\* two emails from one sender, both calls loaded the empty table: ln(2), not ln(3)
C11_Witness ==
    /\ AllDone
    /\ proc["p1"].email.From = <<AddrA>>
    /\ proc["p2"].email.From = <<AddrA>>
    /\ proc["p1"].w.from_wt = <<>>
    /\ proc["p2"].w.from_wt = <<>>
    /\ sent["u1"][AddrA] = 2
    /\ Rows(disk, "u1", "from_weight") = <<[From |-> AddrA, weight |-> Ln(2)]>>

\* C12: a train call for an email to user U changes no table of another user,
\* and of the global directory at most the rank ledger.
C12_OtherUsersUntouched ==
    [][\A v \in Dirs \ {Recipient} : \A t \in TableNames :
          (v = Global /\ t = "rank_df") \/ disk'[v][t] = disk[v][t]]_vars

\* a call for "u2" ran to its end after "u1" got its rows
C12_Witness ==
    /\ call.status = "ok"
    /\ call.email.To = <<"u2">>
    /\ Rows(disk, "u2", "thread_weights") # <<>>
    /\ Len(Rows(disk, "u1", "from_weight")) = 2
    /\ Rows(disk, "u1", "thread_weights") # <<>>

\* C13: every thread record of every user has time_span >= 0.
C13_TimeSpanNonNegative ==
    \A u \in Users : \A i \in DOMAIN Rows(disk, u, "thread_weights") :
        Rows(disk, u, "thread_weights")[i].time_span >= 0

\* the third email of a thread is dated a second before its first
C13_Scenario ==
    /\ call.email.Subject = <<TxtCats>>
    /\ call.email.Date = <<0>>
    /\ Rows(disk, "u1", "thread_weights") =
          <<[thread |-> TxtCats, weight |-> RNaN, time_span |-> 0 - 1, freq |-> 3,
             min_time |-> 1]>>

\* C14: a train call for a thread stored with frequency >= 2, with an email
\* dated at the thread's first_seen, persists no undefined and no infinite
\* weight for the thread.
C14_ZeroElapsedNeverInfinite ==
    [][Trained =>
        LET s == call'.email.Subject[1]
            before == KeyRows(Rows(disk, Recipient, "thread_weights"), "thread", s)
            after == KeyRows(Rows(disk', Recipient, "thread_weights"), "thread", s)
        IN  (Len(before) = 1 /\ before[1].freq >= 2
                /\ call'.email.Date[1] = before[1].min_time) =>
               \A j \in DOMAIN after : after[j].weight \notin {RInf, RNaN}]_vars

\* three emails of one thread with one date: the weight is 10 + log10(2 / 0.0)
C14_Scenario ==
    /\ call.status = "ok"
    /\ call.email.Subject = <<TxtCats>>
    /\ occ["u1"][TxtCats] = 3
    /\ Rows(disk, "u1", "thread_weights") =
          <<[thread |-> TxtCats, weight |-> RInf, time_span |-> 0, freq |-> 3,
             min_time |-> call.email.Date[1]]>>

\* the five weight tables and their key columns
WeightTables == TableNames \ {"rank_df"}

KeyColumn(t) ==
    IF t \in {"from_weight", "thread_senders_weight"} THEN "From"
    ELSE IF t = "thread_weights" THEN "thread" ELSE "term"

Unique(rows, col) == \A i, j \in DOMAIN rows : rows[i][col] = rows[j][col] => i = j

\* C15: in every weight table of every user no key occurs twice.
C15_KeysUnique ==
    \A u \in Users : \A t \in WeightTables : Unique(Rows(disk, u, t), KeyColumn(t))

\* two emails with the empty subject and one with another: the thread table
\* holds the empty key twice, the sender table is sound
C15_Scenario ==
    /\ occ["u1"][TxtEmpty] = 2
    /\ occ["u1"][TxtCats] = 1
    /\ ~Unique(Rows(disk, "u1", "thread_weights"), "thread")
    /\ Unique(Rows(disk, "u1", "from_weight"), "From")

\* C16: a train call leaves every key of the five weight tables with the rows
\* it had: no row of the key is deleted, and none is added for a key the
\* table already holds.
C16_RowsCreatedOnceNeverDeleted ==
    [][Trained =>
        \A t \in WeightTables :
            LET before == Rows(disk, Recipient, t)
                after == Rows(disk', Recipient, t)
            IN  \A i \in DOMAIN before :
                   Len(KeyRows(after, KeyColumn(t), before[i][KeyColumn(t)]))
                      = Len(KeyRows(before, KeyColumn(t), before[i][KeyColumn(t)]))]_vars

\* the second email with the empty subject added a second row for it
C16_Scenario ==
    /\ call.status = "ok"
    /\ call.email.Subject = <<TxtEmpty>>
    /\ occ["u1"][TxtEmpty] = 2
    /\ Len(KeyRows(Rows(disk, "u1", "thread_weights"), "thread", TxtEmpty)) = 2

\* C17: when a train call projects the terms of its subject, the thread table
\* the projection is given is the thread table step 4 of the call persisted.
C17_ProjectionReadsPersistedThreads ==
    [][(Trained /\ call'.step > 4 /\ SubjectTerms(call'.email) # <<>>) =>
        [i \in DOMAIN call'.thread_activity_wt |-> WriteRow(call'.thread_activity_wt[i])]
           = Rows(disk', Recipient, "thread_weights")]_vars

\* the first email of a thread: its row is persisted, the projection was
\* given the empty table
C17_Scenario ==
    /\ call.status = "ok"
    /\ call.email.To = <<"u1">>
    /\ call.subject_terms = "updated"
    /\ call.thread_activity_wt = <<>>
    /\ Rows(disk, "u1", "thread_weights") = <<NewThreadRow(call.email)>>
    /\ Rows(disk, "u1", "thread_term_weights") = <<[term |-> TxtCats, weight |-> One]>>

\* C18: the sender table and the thread-sender table of a user, equal at the
\* start, are equal after every train call.
C18_SenderTablesAgree ==
    \A u \in Users :
        Rows(disk, u, "from_weight") = Rows(disk, u, "thread_senders_weight")

\* both tables hold the two senders, one counted twice
C18_Witness ==
    /\ sent["u1"][AddrB] = 2
    /\ sent["u1"][AddrA] = 1
    /\ Rows(disk, "u1", "thread_senders_weight") =
          <<[From |-> AddrA, weight |-> Ln(2)], [From |-> AddrB, weight |-> Ln(3)]>>

\* the address from_message found: the str whose items email["From"] holds
FullAddress(email) == [i \in DOMAIN email.From |-> email.From[i][1]]

\* C19: a train call on a record of from_message keys the sender table, the
\* thread-sender table and the row of the rank ledger by the full address
\* of the record.
C19_SenderKeyIsFullAddress ==
    [][(Trained /\ call'.status = "ok") =>
        LET a == FullAddress(call'.email)
            ledger == Rows(disk', Recipient, "rank_df")
        IN  /\ KeyRows(Rows(disk', Recipient, "from_weight"), "From", a) # <<>>
            /\ KeyRows(Rows(disk', Recipient, "thread_senders_weight"), "From", a) # <<>>
            /\ ledger[Len(ledger)].from = a]_vars

\* the second email, from ad@x.c, counted in the one row keyed "a"
C19_Scenario ==
    /\ call.status = "ok"
    /\ FullAddress(call.email) = RawFromAd
    /\ sent["u1"][<<"a">>] = 2
    /\ Rows(disk, "u1", "from_weight") = <<[From |-> <<"a">>, weight |-> Ln(3)]>>
    /\ Rows(disk, "u1", "rank_df")[1].from = <<"a">>

====
